---- MODULE Spec2Model ----
(***************************************************************************)
(* Model of the service package: the Facade operations of the two platform *)
(* backends (Windows service manager, macOS launchd) over the installed    *)
(* descriptor, and the Control Bridge that runs the start/stop callbacks.  *)
(* Strings are sequences of one-character strings, so that escaping and    *)
(* rendering are computed and not assumed.                                 *)
(***************************************************************************)
EXTENDS Integers, Sequences, FiniteSets, TLC

VARIABLES
    backend,      \* which platform file is built: "windows" or "darwin"
    svc,          \* the service object New returned (its embedded Config), or NoService
    serviceFile,  \* darwin: the file at serviceFilePath, or NoFile
    loaded,       \* darwin: whether launchd has the service loaded
    scm,          \* windows: the service manager's entry for the name, or NoEntry
    eventSource,  \* windows: whether the event log source of the name is registered
    last,         \* the last operation completed since the service object was made
    prev,         \* the operation completed before it on the same service object
    runPc,        \* where Run is: "idle", "execute", "running", "waiting", "exited", "done"
    stopPresent,  \* whether Config.Stop is non-nil
    changes,      \* windows: the statuses Execute sent on the changes channel in this Run
    stopStartErr, \* windows: the Runtime Error State
    exitStatus,   \* windows: what Execute returned (ssec, errno), or NoStatus
    runErr,       \* windows: what svc.Run returned in this Run
    runRet,       \* what the last Run returned, or NoRet
    cb,           \* the callbacks called in this Run, in order, with what they returned
    events,       \* the control events or signals delivered in this Run, in order
    nRuns,        \* Run calls begun
    request,      \* windows: the request Execute's loop received last in this Run
    prevRunRet,   \* what the Run before this one returned, or NoRet
    errSync,      \* windows: the goroutine holding the errSync mutex, or "free"
    pc,           \* windows: where the goroutine calling Run and the one in Execute are
    local         \* windows: per goroutine, setError's argument or getError's result

mgmtVars == <<svc, serviceFile, loaded, scm, eventSource, last, prev>>
runVars == <<runPc, stopPresent, changes, stopStartErr, exitStatus, runErr, runRet, cb, events,
             nRuns, request, prevRunRet>>
lockVars == <<errSync, pc, local>>
vars == <<backend, svc, serviceFile, loaded, scm, eventSource, last, prev,
          runPc, stopPresent, changes, stopStartErr, exitStatus, runErr, runRet, cb, events,
          nRuns, request, prevRunRet, errSync, pc, local>>

(***************************************************************************)
(* Bounds                                                                  *)
(***************************************************************************)
MaxArgs == 1      \* longest Arguments list
MaxEvents == 2    \* control events delivered to one Run
MaxRuns == 2      \* Run calls on one service object

(***************************************************************************)
(* Strings and Config values                                               *)
(***************************************************************************)
Q == "\""

RECURSIVE Flatten(_)
Flatten(ss) == IF ss = <<>> THEN <<>> ELSE Head(ss) \o Flatten(Tail(ss))

SeqMap(Op(_), s) == [i \in 1..Len(s) |-> Op(s[i])]

SeqsUpTo(S, n) == UNION {[1..k -> S] : k \in 0..n}

ServiceName == <<"d">>
ProgramPath == <<"/", "p">>
ExecutablePath == <<"/", "e">>
ArgStrings == {<<"f">>, <<"v", Q>>}
ArgLists == SeqsUpTo(ArgStrings, MaxArgs)

Config(name, program, arguments, workingDirectory) ==
    [Name |-> name, Privileged |-> TRUE, Program |-> program, Arguments |-> arguments,
     WorkingDirectory |-> workingDirectory]

\* The Configs a caller passes to New: one per argument list, one that leaves
\* the program to default and sets a working directory, one without a name
\* (and without a program, so that a constructor would have to look one up).
Configs ==
    {Config(ServiceName, ProgramPath, a, <<>>) : a \in ArgLists}
    \cup {Config(ServiceName, <<>>, <<>>, <<"w">>), Config(<<>>, <<>>, <<>>, <<>>)}

NoService == [none |-> "service"]
NoFile == [none |-> "file"]
NoEntry == [none |-> "entry"]
NoStatus == [none |-> "status"]
NoRet == [none |-> "ret"]
NoRequest == [none |-> "request"]
nil == "nil"

\* An entry of an operation's call log: a call of the OS or of a library ...
C(name, ok) == [call |-> name, ok |-> ok, err |-> IF ok THEN nil ELSE "failed"]

\* ... or of one of the service's own methods, with the error it returned.
M(name, err) == [call |-> name, ok |-> err = nil, err |-> err]

(***************************************************************************)
(* Construction                                                            *)
(***************************************************************************)
errNameFieldRequired == "Config.Name field is required."

\* newService of the darwin file: the Program defaults to the running
\* executable, whose lookup (exeOk) can fail.
darwinNewService(c, exeOk) ==
    IF c.Program = <<>>
    THEN IF exeOk
         THEN [svc |-> [c EXCEPT !.Program = ExecutablePath], err |-> nil,
               calls |-> <<C("osext.Executable", TRUE)>>]
         ELSE [svc |-> NoService, err |-> "Unable to determin program",
               calls |-> <<C("osext.Executable", FALSE)>>]
    ELSE [svc |-> c, err |-> nil, calls |-> <<>>]

\* newService of the windows file wraps the Config.
windowsNewService(c) == [svc |-> c, err |-> nil, calls |-> <<>>]

newService(c, exeOk) ==
    IF backend = "darwin" THEN darwinNewService(c, exeOk) ELSE windowsNewService(c)

\* A New that constructs the platform service before it looks at the name.
NewResultPlatformFirst(c, exeOk) ==
    LET r == newService(c, exeOk) IN
    IF r.err # nil
    THEN r
    ELSE IF Len(c.Name) = 0
    THEN [svc |-> NoService, err |-> errNameFieldRequired, calls |-> r.calls]
    ELSE r

NewResult(c, exeOk) ==
    IF Len(c.Name) = 0
    THEN [svc |-> NoService, err |-> errNameFieldRequired, calls |-> <<>>]
    ELSE newService(c, exeOk)

(***************************************************************************)
(* darwin: descriptor rendering                                            *)
(***************************************************************************)
\* The template's html function, character by character.
htmlChar(ch) ==
    CASE ch = Q -> <<"&", "#", "3", "4", ";">>
      [] ch = "'" -> <<"&", "#", "3", "9", ";">>
      [] ch = "&" -> <<"&", "a", "m", "p", ";">>
      [] ch = "<" -> <<"&", "l", "t", ";">>
      [] ch = ">" -> <<"&", "g", "t", ";">>
      [] OTHER -> <<ch>>

html(str) == Flatten(SeqMap(htmlChar, str))

launchdArgument(arg) == <<"\n        <string>">> \o html(arg) \o <<"</string>\n">>

\* The bytes the launchdConfig template produces for service s; the fixed
\* text of the template is kept as whole tokens.
launchdConfig(s) ==
    <<"<plist><dict><key>Label</key><string>">> \o html(s.Name) \o
    <<"</string>\n<key>Program</key><string>">> \o html(s.Program) \o
    <<"</string>\n<key>ProgramArguments</key>\n<array>">> \o
    Flatten(SeqMap(launchdArgument, s.Arguments)) \o
    <<"</array>\n">> \o
    (IF s.WorkingDirectory # <<>>
     THEN <<"<key>WorkingDirectory</key><string>">> \o html(s.WorkingDirectory)
          \o <<"</string>">>
     ELSE <<>>) \o
    <<"\n<key>KeepAlive</key><dict><key>SuccessfulExit</key><false/></dict>",
      "<key>RunAtLoad</key><true/>", "<key>Disabled</key><false/>",
      "<key>UserName</key><string>root</string>",
      "<key>GroupName</key><string>wheel</string>",
      "<key>InitGroups</key><true/></dict></plist>\n">>

(***************************************************************************)
(* darwin: Facade operations.  f names the step that fails in this call,   *)
(* or "none".                                                              *)
(***************************************************************************)
PrepareFails == {"TempFile", "Execute", "Chmod", "Close"}
DiffersFails == {"Stat", "ReadOld", "ReadTmp"}
ApplyFails == {"Rename", "Chown", "Load"}

prepareTmpFile(s, f) ==
    IF f = "TempFile"
    THEN [tmpFile |-> "", content |-> <<>>,
          err |-> "Unable to create temporary service configuration",
          calls |-> <<C("ioutil.TempFile", FALSE)>>]
    ELSE IF f = "Execute"
    THEN [tmpFile |-> "", content |-> <<>>,
          err |-> "Unable to process service configuration template",
          calls |-> <<C("ioutil.TempFile", TRUE), C("t.Execute", FALSE),
                      C("tmpFile.Close", TRUE)>>]
    ELSE IF f = "Chmod"
    THEN [tmpFile |-> "", content |-> launchdConfig(s),
          err |-> "Unable to chmod temp file",
          calls |-> <<C("ioutil.TempFile", TRUE), C("t.Execute", TRUE),
                      C("tmpFile.Chmod", FALSE), C("tmpFile.Close", TRUE)>>]
    ELSE IF f = "Close"
    THEN [tmpFile |-> "", content |-> launchdConfig(s),
          err |-> "Unable to close temp file",
          calls |-> <<C("ioutil.TempFile", TRUE), C("t.Execute", TRUE),
                      C("tmpFile.Chmod", TRUE), C("tmpFile.Close", FALSE),
                      C("tmpFile.Close", FALSE)>>]
    ELSE [tmpFile |-> "tmp", content |-> launchdConfig(s), err |-> nil,
          calls |-> <<C("ioutil.TempFile", TRUE), C("t.Execute", TRUE),
                      C("tmpFile.Chmod", TRUE), C("tmpFile.Close", TRUE),
                      C("tmpFile.Close", FALSE)>>]

\* file is the installed file (or NoFile), updated the temporary file's bytes.
differsFromInstalled(file, updated, f) ==
    IF f = "Stat"
    THEN [b |-> FALSE, err |-> "Unable to stat existing launchd configuration",
          calls |-> <<C("os.Stat", FALSE)>>]
    ELSE IF file # NoFile
    THEN IF f = "ReadOld"
         THEN [b |-> FALSE, err |-> "Unable to read existing launchd configuration",
               calls |-> <<C("os.Stat", TRUE), C("ReadFile(old)", FALSE)>>]
         ELSE IF f = "ReadTmp"
         THEN [b |-> FALSE, err |-> "Unable to read updated launchd configuration",
               calls |-> <<C("os.Stat", TRUE), C("ReadFile(old)", TRUE),
                           C("ReadFile(tmp)", FALSE)>>]
         ELSE IF file.content = updated
         THEN [b |-> FALSE, err |-> nil,
               calls |-> <<C("os.Stat", TRUE), C("ReadFile(old)", TRUE),
                           C("ReadFile(tmp)", TRUE)>>]
         ELSE [b |-> TRUE, err |-> nil,
               calls |-> <<C("os.Stat", TRUE), C("ReadFile(old)", TRUE),
                           C("ReadFile(tmp)", TRUE), C("time.Sleep(5h)", TRUE)>>]
    ELSE [b |-> TRUE, err |-> nil, calls |-> <<C("os.Stat", FALSE)>>]

\* The deferred os.Remove(tmpFile); it finds no file once the file was renamed.
removeTmp(p, renamed) ==
    IF p.tmpFile # "" THEN <<C("os.Remove(tmp)", ~renamed)>> ELSE <<>>

\* A check that applies what it renders.
darwinRequiredThatInstalls(s, file, ld, f) ==
    LET p == prepareTmpFile(s, f) IN
    IF p.err # nil
    THEN [b |-> FALSE, err |-> p.err, calls |-> p.calls \o removeTmp(p, FALSE),
          file |-> file, loaded |-> ld]
    ELSE LET d == differsFromInstalled(file, p.content, f) IN
         [b |-> d.b, err |-> d.err,
          calls |-> p.calls \o d.calls \o <<C("os.Rename", TRUE)>> \o removeTmp(p, TRUE),
          file |-> IF d.err = nil THEN [content |-> p.content, owner |-> "user"] ELSE file,
          loaded |-> ld]

darwinInstallOrUpdateRequired(s, file, ld, f) ==
    LET p == prepareTmpFile(s, f) IN
    IF p.err # nil
    THEN [b |-> FALSE, err |-> p.err, calls |-> p.calls \o removeTmp(p, FALSE),
          file |-> file, loaded |-> ld]
    ELSE LET d == differsFromInstalled(file, p.content, f) IN
         [b |-> d.b, err |-> d.err, calls |-> p.calls \o d.calls \o removeTmp(p, FALSE),
          file |-> file, loaded |-> ld]

\* An InstallOrUpdate that asks launchd to load the file before it changes
\* the file's owner.
darwinInstallOrUpdateLoadFirst(s, file, ld, f) ==
    LET p == prepareTmpFile(s, f)
        d == differsFromInstalled(file, p.content, f)
        moved == [content |-> p.content, owner |-> "user"]
        owned == [content |-> p.content, owner |-> "root"]
    IN
    IF p.err # nil
    THEN [b |-> FALSE, err |-> p.err, calls |-> p.calls \o removeTmp(p, FALSE),
          file |-> file, loaded |-> ld]
    ELSE IF d.err # nil
    THEN [b |-> d.b,
          err |-> "Unable to determine if new configuration differs from old",
          calls |-> p.calls \o d.calls \o removeTmp(p, FALSE),
          file |-> file, loaded |-> ld]
    ELSE IF f = "Rename"
    THEN [b |-> FALSE, err |-> "Unable to move service configuration",
          calls |-> p.calls \o d.calls \o <<C("os.Rename", FALSE)>> \o removeTmp(p, FALSE),
          file |-> file, loaded |-> ld]
    ELSE IF f = "Load"
    THEN [b |-> FALSE, err |-> "Unable to load service",
          calls |-> p.calls \o d.calls \o
                    <<C("os.Rename", TRUE), C("launchctl load", FALSE)>>
                    \o removeTmp(p, TRUE),
          file |-> moved, loaded |-> ld]
    ELSE IF f = "Chown"
    THEN [b |-> FALSE, err |-> "Unable to change owner to root",
          calls |-> p.calls \o d.calls \o
                    <<C("os.Rename", TRUE), C("launchctl load", TRUE), C("os.Chown", FALSE)>>
                    \o removeTmp(p, TRUE),
          file |-> moved, loaded |-> TRUE]
    ELSE [b |-> TRUE, err |-> nil,
          calls |-> p.calls \o d.calls \o
                    <<C("os.Rename", TRUE), C("launchctl load", TRUE), C("os.Chown", TRUE)>>
                    \o removeTmp(p, TRUE),
          file |-> owned, loaded |-> TRUE]

darwinInstallOrUpdate(s, file, ld, f) ==
    LET p == prepareTmpFile(s, f) IN
    IF p.err # nil
    THEN [b |-> FALSE, err |-> p.err, calls |-> p.calls \o removeTmp(p, FALSE),
          file |-> file, loaded |-> ld]
    ELSE
    LET d == differsFromInstalled(file, p.content, f)
        moved == [content |-> p.content, owner |-> "user"]
        owned == [content |-> p.content, owner |-> "root"]
    IN
    IF d.err # nil
    THEN [b |-> d.b,
          err |-> "Unable to determine if new configuration differs from old",
          calls |-> p.calls \o d.calls \o removeTmp(p, FALSE),
          file |-> file, loaded |-> ld]
    ELSE IF f = "Rename"
    THEN [b |-> FALSE, err |-> "Unable to move service configuration",
          calls |-> p.calls \o d.calls \o <<C("os.Rename", FALSE)>> \o removeTmp(p, FALSE),
          file |-> file, loaded |-> ld]
    ELSE IF f = "Chown"
    THEN [b |-> FALSE, err |-> "Unable to change owner to root",
          calls |-> p.calls \o d.calls \o <<C("os.Rename", TRUE), C("os.Chown", FALSE)>>
                    \o removeTmp(p, TRUE),
          file |-> moved, loaded |-> ld]
    ELSE IF f = "Load"
    THEN [b |-> FALSE, err |-> "Unable to load service",
          calls |-> p.calls \o d.calls \o
                    <<C("os.Rename", TRUE), C("os.Chown", TRUE), C("launchctl load", FALSE)>>
                    \o removeTmp(p, TRUE),
          file |-> owned, loaded |-> ld]
    ELSE [b |-> TRUE, err |-> nil,
          calls |-> p.calls \o d.calls \o
                    <<C("os.Rename", TRUE), C("os.Chown", TRUE), C("launchctl load", TRUE)>>
                    \o removeTmp(p, TRUE),
          file |-> owned, loaded |-> TRUE]

\* Whether "sudo launchctl unload" exits with status 0 is the command's
\* choice (f = "Unload" when it does not), also when there is no file.
darwinUninstall(file, ld, f) ==
    IF f = "Unload"
    THEN [b |-> FALSE, err |-> "Unable to unload service prior to uninstalling",
          calls |-> <<C("launchctl unload", FALSE)>>, file |-> file, loaded |-> ld]
    ELSE LET ld2 == IF file # NoFile THEN FALSE ELSE ld IN
         IF file = NoFile
         THEN [b |-> FALSE, err |-> "remove: no such file or directory",
               calls |-> <<C("launchctl unload", TRUE), C("os.Remove", FALSE)>>,
               file |-> file, loaded |-> ld2]
         ELSE IF f = "Remove"
         THEN [b |-> FALSE, err |-> "remove: operation not permitted",
               calls |-> <<C("launchctl unload", TRUE), C("os.Remove", FALSE)>>,
               file |-> file, loaded |-> ld2]
         ELSE [b |-> FALSE, err |-> nil,
               calls |-> <<C("launchctl unload", TRUE), C("os.Remove", TRUE)>>,
               file |-> NoFile, loaded |-> ld2]

darwinStart(f) ==
    [err |-> IF f = "Start" THEN "launchctl start: exit status 1" ELSE nil,
     calls |-> <<C("launchctl start", f # "Start")>>]

darwinStop(f) ==
    [err |-> IF f = "Stop" THEN "launchctl stop: exit status 1" ELSE nil,
     calls |-> <<C("launchctl stop", f # "Stop")>>]

\* A Restart that goes on to Start whatever Stop returned.
darwinRestartIgnoringStop(f) ==
    LET st == darwinStop(f)
        sa == darwinStart(f)
    IN [err |-> sa.err,
        calls |-> <<M("Stop", st.err)>> \o st.calls \o <<C("time.Sleep(50ms)", TRUE)>>
                  \o <<M("Start", sa.err)>> \o sa.calls]

darwinRestart(f) ==
    LET st == darwinStop(f) IN
    IF st.err # nil
    THEN [err |-> st.err, calls |-> <<M("Stop", st.err)>> \o st.calls]
    ELSE LET sa == darwinStart(f) IN
         [err |-> sa.err,
          calls |-> <<M("Stop", st.err)>> \o st.calls \o <<C("time.Sleep(50ms)", TRUE)>>
                    \o <<M("Start", sa.err)>> \o sa.calls]

(***************************************************************************)
(* windows: the service manager's config record and binary path            *)
(***************************************************************************)
buildConfig(s) ==
    [DisplayName |-> s.Name, Description |-> s.Name, StartType |-> "StartAutomatic",
     ServiceStartName |-> ".\\LocalSystem"]

\* mgr.Config{}
zeroConfig ==
    [DisplayName |-> <<>>, Description |-> <<>>, StartType |-> "", ServiceStartName |-> ""]

\* strings.Replace(arg, `"`, `\"`, -1)
escapeQuoteChar(ch) == IF ch = Q THEN <<"\\", Q>> ELSE <<ch>>

escapeQuotes(arg) == Flatten(SeqMap(escapeQuoteChar, arg))

binPathArgument(arg) == <<" ", Q>> \o escapeQuotes(arg) \o <<Q>>

binPath(exepath, arguments) ==
    <<Q>> \o exepath \o <<Q>> \o Flatten(SeqMap(binPathArgument, arguments))

(***************************************************************************)
(* windows: Facade operations.  entry is the manager's entry for the name  *)
(* (or NoEntry), ev whether the event log source exists, f the step that   *)
(* fails in this call, or "none".                                          *)
(***************************************************************************)
WindowsInstallFails ==
    {"Connect", "OpenService", "Config", "Executable", "CreateService", "StartOpen",
     "Start", "UpdateConfig"}
WindowsUninstallFails == {"Connect", "OpenService", "Delete", "EventlogRemove"}
WindowsStopFails == {"Connect", "OpenService", "Control"}

\* s is whether a handle came back (s # nil).  A failed OpenService is
\* reported as "no such service" with a nil error.
existingSvcAndConfig(entry, f) ==
    IF entry = NoEntry \/ f = "OpenService"
    THEN [s |-> FALSE, cfg |-> zeroConfig, err |-> nil,
          calls |-> <<C("m.OpenService", FALSE)>>]
    ELSE IF f = "Config"
    THEN [s |-> TRUE, cfg |-> zeroConfig, err |-> "s.Config failed",
          calls |-> <<C("m.OpenService", TRUE), C("s.Config", FALSE)>>]
    ELSE [s |-> TRUE, cfg |-> entry.config, err |-> nil,
          calls |-> <<C("m.OpenService", TRUE), C("s.Config", TRUE)>>]

doStart(entry, f) ==
    IF entry = NoEntry \/ f = "StartOpen"
    THEN [err |-> "OpenService failed", calls |-> <<C("m.OpenService", FALSE)>>]
    ELSE IF f = "Start"
    THEN [err |-> "s.Start failed",
          calls |-> <<C("m.OpenService", TRUE), C("s.Start", FALSE), C("s.Close", TRUE)>>]
    ELSE [err |-> nil,
          calls |-> <<C("m.OpenService", TRUE), C("s.Start", TRUE), C("s.Close", TRUE)>>]

windowsInstallOrUpdateRequired(s, entry, ev, f) ==
    [b |-> TRUE, err |-> nil, calls |-> <<>>, entry |-> entry, event |-> ev]

windowsInstallOrUpdate(s, entry, ev, f) ==
    IF f = "Connect"
    THEN [b |-> FALSE, err |-> "Unable to connect to service manager",
          calls |-> <<C("mgr.Connect", FALSE)>>, entry |-> entry, event |-> ev]
    ELSE
    LET cfg == buildConfig(s)
        e == existingSvcAndConfig(entry, f)
        open == <<C("mgr.Connect", TRUE)>> \o e.calls
        bye == <<C("m.Disconnect", TRUE)>>
    IN
    IF e.err # nil
    THEN [b |-> FALSE, err |-> "Unable to get existing service and config",
          calls |-> open \o bye, entry |-> entry, event |-> ev]
    ELSE IF e.s /\ cfg = e.cfg
    THEN [b |-> FALSE, err |-> nil, calls |-> open \o bye, entry |-> entry, event |-> ev]
    ELSE IF ~e.s
    THEN IF f = "Executable"
         THEN [b |-> FALSE, err |-> "Unable to determine executable",
               calls |-> open \o <<C("osext.Executable", FALSE)>> \o bye,
               entry |-> entry, event |-> ev]
         ELSE IF entry # NoEntry \/ f = "CreateService"
         THEN [b |-> FALSE, err |-> "Unable to create service",
               calls |-> open \o <<C("osext.Executable", TRUE), C("m.CreateService", FALSE)>>
                         \o bye,
               entry |-> entry, event |-> ev]
         ELSE LET created == [binPath |-> binPath(ExecutablePath, s.Arguments),
                              config |-> cfg]
                  st == doStart(created, f)
              IN [b |-> FALSE, err |-> st.err,
                  calls |-> open \o <<C("osext.Executable", TRUE), C("m.CreateService", TRUE)>>
                            \o st.calls \o <<C("s.Close", TRUE)>> \o bye,
                  entry |-> created, event |-> ev]
    ELSE IF f = "UpdateConfig"
    THEN [b |-> FALSE, err |-> "Unable to update config",
          calls |-> open \o <<C("s.UpdateConfig", FALSE), C("s.Close", TRUE)>> \o bye,
          entry |-> entry, event |-> ev]
    ELSE [b |-> TRUE, err |-> nil,
          calls |-> open \o <<C("s.UpdateConfig", TRUE), C("s.Close", TRUE)>> \o bye,
          entry |-> [entry EXCEPT !.config = cfg], event |-> ev]

windowsUninstall(s, entry, ev, f) ==
    IF f = "Connect"
    THEN [b |-> FALSE, err |-> "mgr.Connect failed",
          calls |-> <<C("mgr.Connect", FALSE)>>, entry |-> entry, event |-> ev]
    ELSE IF entry = NoEntry \/ f = "OpenService"
    THEN [b |-> FALSE, err |-> "service is not installed",
          calls |-> <<C("mgr.Connect", TRUE), C("m.OpenService", FALSE),
                      C("m.Disconnect", TRUE)>>,
          entry |-> entry, event |-> ev]
    ELSE IF f = "Delete"
    THEN [b |-> FALSE, err |-> "s.Delete failed",
          calls |-> <<C("mgr.Connect", TRUE), C("m.OpenService", TRUE), C("s.Delete", FALSE),
                      C("s.Close", TRUE), C("m.Disconnect", TRUE)>>,
          entry |-> entry, event |-> ev]
    ELSE IF ~ev \/ f = "EventlogRemove"
    THEN [b |-> FALSE, err |-> "RemoveEventLogSource() failed",
          calls |-> <<C("mgr.Connect", TRUE), C("m.OpenService", TRUE), C("s.Delete", TRUE),
                      C("eventlog.Remove", FALSE), C("s.Close", TRUE),
                      C("m.Disconnect", TRUE)>>,
          entry |-> NoEntry, event |-> ev]
    ELSE [b |-> FALSE, err |-> nil,
          calls |-> <<C("mgr.Connect", TRUE), C("m.OpenService", TRUE), C("s.Delete", TRUE),
                      C("eventlog.Remove", TRUE), C("s.Close", TRUE),
                      C("m.Disconnect", TRUE)>>,
          entry |-> NoEntry, event |-> FALSE]

windowsStart(f) ==
    IF f = "Connect"
    THEN [err |-> "mgr.Connect failed", calls |-> <<C("mgr.Connect", FALSE)>>]
    ELSE [err |-> nil, calls |-> <<C("mgr.Connect", TRUE), C("m.Disconnect", TRUE)>>]

windowsStop(entry, f) ==
    IF f = "Connect"
    THEN [err |-> "mgr.Connect failed", calls |-> <<C("mgr.Connect", FALSE)>>]
    ELSE IF entry = NoEntry \/ f = "OpenService"
    THEN [err |-> "OpenService failed",
          calls |-> <<C("mgr.Connect", TRUE), C("m.OpenService", FALSE),
                      C("m.Disconnect", TRUE)>>]
    ELSE IF f = "Control"
    THEN [err |-> "s.Control failed",
          calls |-> <<C("mgr.Connect", TRUE), C("m.OpenService", TRUE),
                      C("s.Control(Stop)", FALSE), C("s.Close", TRUE),
                      C("m.Disconnect", TRUE)>>]
    ELSE [err |-> nil,
          calls |-> <<C("mgr.Connect", TRUE), C("m.OpenService", TRUE),
                      C("s.Control(Stop)", TRUE), C("s.Close", TRUE),
                      C("m.Disconnect", TRUE)>>]

\* f = "StartConnect": the Connect of the Start call fails.
windowsRestart(entry, f) ==
    LET st == windowsStop(entry, f) IN
    IF st.err # nil
    THEN [err |-> st.err, calls |-> <<M("Stop", st.err)>> \o st.calls]
    ELSE LET sa == windowsStart(IF f = "StartConnect" THEN "Connect" ELSE "none") IN
         [err |-> sa.err,
          calls |-> <<M("Stop", st.err)>> \o st.calls \o <<C("time.Sleep(50ms)", TRUE)>>
                    \o <<M("Start", sa.err)>> \o sa.calls]

(***************************************************************************)
(* Initial states                                                          *)
(***************************************************************************)
\* The service objects New can return.
Services ==
    {IF c.Program = <<>> THEN [c EXCEPT !.Program = ExecutablePath] ELSE c :
        c \in {d \in Configs : d.Name # <<>>}}

NoOp == [op |-> "other", b |-> FALSE]

\* What is kept of an operation once another one follows it: its name and
\* boolean when it was an InstallOrUpdateRequired or InstallOrUpdate that
\* returned no error, and "other" for any other operation or outcome.
Earlier(l) ==
    IF l.op \in {"InstallOrUpdateRequired", "InstallOrUpdate"} /\ l.err = nil
    THEN [op |-> l.op, b |-> l.b]
    ELSE NoOp

Persisted ==
    [file |-> serviceFile, loaded |-> loaded, entry |-> scm, event |-> eventSource]

\* What an earlier installation of the same name can have left behind.
InstalledFiles == {[content |-> launchdConfig(s), owner |-> "root"] : s \in Services}
InstalledEntries ==
    {[binPath |-> binPath(ExecutablePath, s.Arguments),
      config |-> [buildConfig(s) EXCEPT !.StartType = st]] :
        s \in Services, st \in {"StartAutomatic", "StartManual"}}

InitPersisted ==
    \/ /\ backend = "darwin"
       /\ \/ serviceFile = NoFile /\ loaded = FALSE
          \/ serviceFile \in InstalledFiles /\ loaded = TRUE
       /\ scm = NoEntry
       /\ eventSource = FALSE
    \/ /\ backend = "windows"
       /\ scm \in {NoEntry} \cup InstalledEntries
       /\ eventSource \in BOOLEAN
       /\ serviceFile = NoFile
       /\ loaded = FALSE

\* The persisted state of a service installed from its own Config, as it is
\* when the OS manager runs the program.
InitInstalled ==
    \/ /\ backend = "darwin"
       /\ serviceFile = [content |-> launchdConfig(svc), owner |-> "root"]
       /\ loaded = TRUE
       /\ scm = NoEntry
       /\ eventSource = FALSE
    \/ /\ backend = "windows"
       /\ scm = [binPath |-> binPath(ExecutablePath, svc.Arguments), config |-> buildConfig(svc)]
       /\ eventSource = TRUE
       /\ serviceFile = NoFile
       /\ loaded = FALSE

InitRun ==
    /\ runPc = "idle"
    /\ changes = <<>>
    /\ stopStartErr = nil
    /\ exitStatus = NoStatus
    /\ runErr = nil
    /\ runRet = NoRet
    /\ cb = <<>>
    /\ events = <<>>
    /\ nRuns = 0
    /\ request = NoRequest
    /\ prevRunRet = NoRet
    /\ errSync = "free"
    /\ pc = [run |-> "idle", execute |-> "off"]
    /\ local = [run |-> nil, execute |-> nil]

Init ==
    /\ backend \in {"windows", "darwin"}
    /\ svc = NoService
    /\ InitPersisted
    /\ last = [op |-> "none", arg |-> NoService, b |-> FALSE, err |-> nil, calls |-> <<>>,
               pre |-> Persisted]
    /\ prev = NoOp
    /\ stopPresent = TRUE
    /\ InitRun

(***************************************************************************)
(* Facade operations as actions                                            *)
(***************************************************************************)
\* Record operation op with result r and persisted state q as the last one.
Completed(op, r, q) ==
    /\ last' = [op |-> op, arg |-> NoService, b |-> r.b, err |-> r.err, calls |-> r.calls,
                pre |-> Persisted]
    /\ prev' = Earlier(last)
    /\ serviceFile' = q.file
    /\ loaded' = q.loaded
    /\ scm' = q.entry
    /\ eventSource' = q.event
    /\ UNCHANGED <<backend, svc>>
    /\ UNCHANGED <<runVars, lockVars>>

OnDarwin(r) == [Persisted EXCEPT !.file = r.file, !.loaded = r.loaded]
OnWindows(r) == [Persisted EXCEPT !.entry = r.entry, !.event = r.event]

New(c, exeOk) ==
    LET r == NewResult(c, exeOk) IN
    /\ runPc = "idle"
    /\ svc' = r.svc
    /\ last' = [op |-> "New", arg |-> c, b |-> FALSE, err |-> r.err, calls |-> r.calls,
                pre |-> Persisted]
    /\ prev' = NoOp
    /\ UNCHANGED <<backend, serviceFile, loaded, scm, eventSource>>
    /\ UNCHANGED <<runVars, lockVars>>

InstallOrUpdateRequired(f) ==
    /\ svc # NoService
    /\ runPc = "idle"
    /\ IF backend = "darwin"
       THEN LET r == darwinInstallOrUpdateRequired(svc, serviceFile, loaded, f)
            IN Completed("InstallOrUpdateRequired", r, OnDarwin(r))
       ELSE LET r == windowsInstallOrUpdateRequired(svc, scm, eventSource, f)
            IN Completed("InstallOrUpdateRequired", r, OnWindows(r))

InstallOrUpdate(f) ==
    /\ svc # NoService
    /\ runPc = "idle"
    /\ IF backend = "darwin"
       THEN LET r == darwinInstallOrUpdate(svc, serviceFile, loaded, f)
            IN Completed("InstallOrUpdate", r, OnDarwin(r))
       ELSE LET r == windowsInstallOrUpdate(svc, scm, eventSource, f)
            IN Completed("InstallOrUpdate", r, OnWindows(r))

Uninstall(f) ==
    /\ svc # NoService
    /\ runPc = "idle"
    /\ IF backend = "darwin"
       THEN LET r == darwinUninstall(serviceFile, loaded, f)
            IN Completed("Uninstall", r, OnDarwin(r))
       ELSE LET r == windowsUninstall(svc, scm, eventSource, f)
            IN Completed("Uninstall", r, OnWindows(r))

Start(f) ==
    /\ svc # NoService
    /\ runPc = "idle"
    /\ LET r == IF backend = "darwin" THEN darwinStart(f) ELSE windowsStart(f)
       IN Completed("Start", [b |-> FALSE, err |-> r.err, calls |-> r.calls], Persisted)

Stop(f) ==
    /\ svc # NoService
    /\ runPc = "idle"
    /\ LET r == IF backend = "darwin" THEN darwinStop(f) ELSE windowsStop(scm, f)
       IN Completed("Stop", [b |-> FALSE, err |-> r.err, calls |-> r.calls], Persisted)

Restart(f) ==
    /\ svc # NoService
    /\ runPc = "idle"
    /\ LET r == IF backend = "darwin" THEN darwinRestart(f) ELSE windowsRestart(scm, f)
       IN Completed("Restart", [b |-> FALSE, err |-> r.err, calls |-> r.calls], Persisted)

\* The steps that can fail in one call of each operation, per backend.
Fails(onDarwin, onWindows) ==
    (IF backend = "darwin" THEN onDarwin ELSE onWindows) \cup {"none"}

Next ==
    \/ \E c \in Configs, exeOk \in BOOLEAN : New(c, exeOk)
    \/ \E f \in Fails(PrepareFails \cup DiffersFails, {}) : InstallOrUpdateRequired(f)
    \/ \E f \in Fails(PrepareFails \cup DiffersFails \cup ApplyFails, WindowsInstallFails) :
          InstallOrUpdate(f)
    \/ \E f \in Fails({"Unload", "Remove"}, WindowsUninstallFails) : Uninstall(f)
    \/ \E f \in Fails({"Start"}, {"Connect"}) : Start(f)
    \/ \E f \in Fails({"Stop"}, WindowsStopFails) : Stop(f)
    \/ \E f \in Fails({"Stop", "Start"}, WindowsStopFails \cup {"StartConnect"}) : Restart(f)

Spec == Init /\ [][Next]_vars

(***************************************************************************)
(* Control Bridge: Run, with the callbacks' and the OS's choices as inputs *)
(***************************************************************************)
cmdsAccepted == {"AcceptStop", "AcceptShutdown"}

Status(state, accepts) == [State |-> state, Accepts |-> accepts]

StartFailedErrno == 1
StopFailedErrno == 2

onStartError == "onStart failed"
onStopError == "onStop failed"
svcRunError == "svc.Run failed"

Called(name, err) == [name |-> name, err |-> err]

\* The requests the service manager can deliver: a command and the status
\* the manager holds as current.
ChangeRequests ==
    [Cmd : {"Interrogate", "Stop", "Shutdown", "Pause"},
     CurrentStatus : {Status("Running", cmdsAccepted), Status("Paused", {})}]

Signals == {"Interrupt", "Kill"}

\* A setError that forgets the assignment.
setErrorDropped(err) == UNCHANGED stopStartErr

setError(err) == stopStartErr' = err

getError == stopStartErr

\* A Run that lets the control loop's error win.
runResultLoopFirst(startStopErr, err) ==
    IF err # nil THEN err
    ELSE IF startStopErr # nil THEN startStopErr
    ELSE nil

\* What windowsService.Run returns, given the recorded callback error and
\* what svc.Run returned.
runResult(startStopErr, err) ==
    IF startStopErr # nil THEN startStopErr
    ELSE IF err # nil THEN err
    ELSE nil

BeginRun ==
    /\ svc # NoService
    /\ runPc \in {"idle", "done"}
    /\ nRuns < MaxRuns
    /\ nRuns' = nRuns + 1
    /\ changes' = <<>>
    /\ events' = <<>>
    /\ exitStatus' = NoStatus
    /\ request' = NoRequest
    /\ prevRunRet' = runRet
    /\ UNCHANGED <<backend, stopPresent>>
    /\ UNCHANGED <<mgmtVars, lockVars>>

\* A Run that leaves the Runtime Error State as the Run before left it.
windowsRunNoReset(dispatchOk) ==
    /\ backend = "windows"
    /\ BeginRun
    /\ UNCHANGED stopStartErr
    /\ cb' = <<>>
    /\ IF dispatchOk
       THEN /\ runPc' = "execute"
            /\ runErr' = nil
            /\ runRet' = NoRet
       ELSE /\ runPc' = "done"
            /\ runErr' = svcRunError
            /\ runRet' = runResult(stopStartErr, svcRunError)

\* windowsService.Run up to the call of svc.Run; when the dispatcher cannot
\* be reached (~dispatchOk) svc.Run returns without calling Execute.
windowsRun(dispatchOk) ==
    /\ backend = "windows"
    /\ BeginRun
    /\ setError(nil)
    /\ cb' = <<>>
    /\ IF dispatchOk
       THEN /\ runPc' = "execute"
            /\ runErr' = nil
            /\ runRet' = NoRet
       ELSE /\ runPc' = "done"
            /\ runErr' = svcRunError
            /\ runRet' = runResult(nil, svcRunError)

\* An Execute that reports Running before it calls onStart.
ExecuteStartRunningFirst(startOk) ==
    /\ runPc = "execute"
    /\ cb' = Append(cb, Called("Start", IF startOk THEN nil ELSE onStartError))
    /\ changes' = changes \o <<Status("StartPending", {}), Status("Running", cmdsAccepted)>>
    /\ IF ~startOk
       THEN /\ setError(onStartError)
            /\ exitStatus' = [ssec |-> TRUE, errno |-> StartFailedErrno]
            /\ runPc' = "exited"
       ELSE /\ runPc' = "running"
            /\ UNCHANGED <<stopStartErr, exitStatus>>
    /\ UNCHANGED <<backend, stopPresent, runErr, runRet, events, nRuns, request, prevRunRet>>
    /\ UNCHANGED <<mgmtVars, lockVars>>

\* Execute up to its control loop.
ExecuteStart(startOk) ==
    /\ runPc = "execute"
    /\ cb' = Append(cb, Called("Start", IF startOk THEN nil ELSE onStartError))
    /\ IF ~startOk
       THEN /\ changes' = Append(changes, Status("StartPending", {}))
            /\ setError(onStartError)
            /\ exitStatus' = [ssec |-> TRUE, errno |-> StartFailedErrno]
            /\ runPc' = "exited"
       ELSE /\ changes' = changes \o <<Status("StartPending", {}),
                                       Status("Running", cmdsAccepted)>>
            /\ runPc' = "running"
            /\ UNCHANGED <<stopStartErr, exitStatus>>
    /\ UNCHANGED <<backend, stopPresent, runErr, runRet, events, nRuns, request, prevRunRet>>
    /\ UNCHANGED <<mgmtVars, lockVars>>

\* A control loop whose "break" after a stop leaves only the switch: the
\* loop goes on unless onStop failed.
ExecuteRequestBreaksSwitch(c, stopOk) ==
    /\ runPc = "running"
    /\ c.Cmd \in {"Stop", "Shutdown"} \/ (Len(events) < MaxEvents /\ stopOk)
    /\ events' = Append(events, c.Cmd)
    /\ request' = c
    /\ IF c.Cmd = "Interrogate"
       THEN /\ changes' = Append(changes, c.CurrentStatus)
            /\ UNCHANGED <<runPc, cb, stopStartErr, exitStatus>>
       ELSE IF c.Cmd \in {"Stop", "Shutdown"}
       THEN /\ changes' = Append(changes, Status("StopPending", {}))
            /\ IF stopPresent
               THEN /\ cb' = Append(cb, Called("Stop", IF stopOk THEN nil ELSE onStopError))
                    /\ IF ~stopOk
                       THEN /\ setError(onStopError)
                            /\ exitStatus' = [ssec |-> TRUE, errno |-> StopFailedErrno]
                            /\ runPc' = "exited"
                       ELSE UNCHANGED <<runPc, stopStartErr, exitStatus>>
               ELSE UNCHANGED <<runPc, cb, stopStartErr, exitStatus>>
       ELSE UNCHANGED <<changes, runPc, cb, stopStartErr, exitStatus>>
    /\ UNCHANGED <<backend, stopPresent, runErr, runRet, nRuns, prevRunRet>>
    /\ UNCHANGED <<mgmtVars, lockVars>>

\* A control loop that answers every request other than a stop with the
\* status it reported itself.
ExecuteRequestAnswersAll(c, stopOk) ==
    /\ runPc = "running"
    /\ c.Cmd \in {"Stop", "Shutdown"} \/ (Len(events) < MaxEvents /\ stopOk)
    /\ events' = Append(events, c.Cmd)
    /\ request' = c
    /\ IF c.Cmd \in {"Stop", "Shutdown"}
       THEN /\ changes' = Append(changes, Status("StopPending", {}))
            /\ runPc' = "exited"
            /\ IF stopPresent
               THEN /\ cb' = Append(cb, Called("Stop", IF stopOk THEN nil ELSE onStopError))
                    /\ IF ~stopOk
                       THEN /\ setError(onStopError)
                            /\ exitStatus' = [ssec |-> TRUE, errno |-> StopFailedErrno]
                       ELSE /\ exitStatus' = [ssec |-> FALSE, errno |-> 0]
                            /\ UNCHANGED stopStartErr
               ELSE /\ exitStatus' = [ssec |-> FALSE, errno |-> 0]
                    /\ UNCHANGED <<cb, stopStartErr>>
       ELSE /\ changes' = Append(changes, Status("Running", cmdsAccepted))
            /\ UNCHANGED <<runPc, cb, stopStartErr, exitStatus>>
    /\ UNCHANGED <<backend, stopPresent, runErr, runRet, nRuns, prevRunRet>>
    /\ UNCHANGED <<mgmtVars, lockVars>>

\* One turn of Execute's control loop on request c.
ExecuteRequest(c, stopOk) ==
    /\ runPc = "running"
    /\ c.Cmd \in {"Stop", "Shutdown"} \/ (Len(events) < MaxEvents /\ stopOk)
    /\ events' = Append(events, c.Cmd)
    /\ request' = c
    /\ IF c.Cmd = "Interrogate"
       THEN /\ changes' = Append(changes, c.CurrentStatus)
            /\ UNCHANGED <<runPc, cb, stopStartErr, exitStatus>>
       ELSE IF c.Cmd \in {"Stop", "Shutdown"}
       THEN /\ changes' = Append(changes, Status("StopPending", {}))
            /\ runPc' = "exited"
            /\ IF stopPresent
               THEN /\ cb' = Append(cb, Called("Stop", IF stopOk THEN nil ELSE onStopError))
                    /\ IF ~stopOk
                       THEN /\ setError(onStopError)
                            /\ exitStatus' = [ssec |-> TRUE, errno |-> StopFailedErrno]
                       ELSE /\ exitStatus' = [ssec |-> FALSE, errno |-> 0]
                            /\ UNCHANGED stopStartErr
               ELSE /\ exitStatus' = [ssec |-> FALSE, errno |-> 0]
                    /\ UNCHANGED <<cb, stopStartErr>>
       ELSE UNCHANGED <<changes, runPc, cb, stopStartErr, exitStatus>>
    /\ UNCHANGED <<backend, stopPresent, runErr, runRet, nRuns, prevRunRet>>
    /\ UNCHANGED <<mgmtVars, lockVars>>

\* windowsService.Run after svc.Run returned err.
windowsRunReturn(err) ==
    /\ backend = "windows"
    /\ runPc = "exited"
    /\ runErr' = err
    /\ runRet' = runResult(getError, err)
    /\ runPc' = "done"
    /\ UNCHANGED <<backend, stopPresent, changes, stopStartErr, exitStatus, cb, events, nRuns,
                   request, prevRunRet>>
    /\ UNCHANGED <<mgmtVars, lockVars>>

\* darwinLaunchdService.Run up to its wait for a signal.
darwinRun(startOk) ==
    /\ backend = "darwin"
    /\ BeginRun
    /\ cb' = <<Called("Start", IF startOk THEN nil ELSE onStartError)>>
    /\ IF ~startOk
       THEN runPc' = "done" /\ runRet' = onStartError
       ELSE runPc' = "waiting" /\ runRet' = NoRet
    /\ UNCHANGED <<stopStartErr, runErr>>

\* darwinLaunchdService.Run from the arrival of a signal.
darwinRunSignal(sig, stopOk) ==
    /\ backend = "darwin"
    /\ runPc = "waiting"
    /\ events' = Append(events, sig)
    /\ runPc' = "done"
    /\ IF ~stopPresent
       THEN runRet' = nil /\ UNCHANGED cb
       ELSE /\ cb' = Append(cb, Called("Stop", IF stopOk THEN nil ELSE onStopError))
            /\ runRet' = IF stopOk THEN nil ELSE onStopError
    /\ UNCHANGED <<backend, stopPresent, changes, stopStartErr, exitStatus, runErr, nRuns,
                   request, prevRunRet>>
    /\ UNCHANGED <<mgmtVars, lockVars>>

RunInit ==
    /\ backend \in {"windows", "darwin"}
    /\ svc \in Services
    /\ InitInstalled
    /\ last = [op |-> "New", arg |-> svc, b |-> FALSE, err |-> nil, calls |-> <<>>,
               pre |-> Persisted]
    /\ prev = NoOp
    /\ stopPresent \in BOOLEAN
    /\ InitRun

RunNext ==
    \/ \E dispatchOk \in BOOLEAN : windowsRun(dispatchOk)
    \/ \E startOk \in BOOLEAN : ExecuteStart(startOk)
    \/ \E c \in ChangeRequests, stopOk \in BOOLEAN : ExecuteRequest(c, stopOk)
    \/ \E err \in {nil, svcRunError} : windowsRunReturn(err)
    \/ \E startOk \in BOOLEAN : darwinRun(startOk)
    \/ \E sig \in Signals, stopOk \in BOOLEAN : darwinRunSignal(sig, stopOk)

RunSpec == RunInit /\ [][RunNext]_vars

(***************************************************************************)
(* windowsService.Run and Execute on two goroutines, one step per lock     *)
(* operation and per access of the Runtime Error State.  "run" is the      *)
(* goroutine that calls Run, "execute" the one on which svc.Run calls      *)
(* Execute; svc.Run returns to "run" only after Execute has returned.      *)
(***************************************************************************)
Goroutines == {"run", "execute"}

LockFrame ==
    /\ UNCHANGED <<backend, stopPresent, runPc>>
    /\ UNCHANGED mgmtVars

\* Run is called: setError(nil) is entered.
RunCalled ==
    /\ svc # NoService
    /\ pc.run \in {"idle", "done"}
    /\ nRuns < MaxRuns
    /\ nRuns' = nRuns + 1
    /\ changes' = <<>>
    /\ events' = <<>>
    /\ cb' = <<>>
    /\ exitStatus' = NoStatus
    /\ request' = NoRequest
    /\ prevRunRet' = runRet
    /\ runErr' = nil
    /\ runRet' = NoRet
    /\ local' = [local EXCEPT !.run = nil]
    /\ pc' = [pc EXCEPT !.run = "setError.Lock"]
    /\ UNCHANGED <<stopStartErr, errSync>>
    /\ LockFrame

\* A setError or getError that goes on without acquiring the mutex.
errSyncLockSkipped(t) ==
    /\ pc[t] \in {"setError.Lock", "getError.Lock"}
    /\ pc' = [pc EXCEPT ![t] = IF pc[t] = "setError.Lock" THEN "setError.assign"
                                                         ELSE "getError.read"]
    /\ UNCHANGED <<errSync, changes, stopStartErr, exitStatus, runErr, runRet, cb, events,
                   nRuns, request, prevRunRet, local>>
    /\ LockFrame

\* ws.errSync.Lock() in setError and getError: blocks while the mutex is held.
errSyncLock(t) ==
    /\ pc[t] \in {"setError.Lock", "getError.Lock"}
    /\ errSync = "free"
    /\ errSync' = t
    /\ pc' = [pc EXCEPT ![t] = IF pc[t] = "setError.Lock" THEN "setError.assign"
                                                         ELSE "getError.read"]
    /\ UNCHANGED <<changes, stopStartErr, exitStatus, runErr, runRet, cb, events, nRuns,
                   request, prevRunRet, local>>
    /\ LockFrame

\* ws.stopStartErr = err
setErrorAssign(t) ==
    /\ pc[t] = "setError.assign"
    /\ setError(local[t])
    /\ pc' = [pc EXCEPT ![t] = "setError.Unlock"]
    /\ UNCHANGED <<errSync, changes, exitStatus, runErr, runRet, cb, events, nRuns, request,
                   prevRunRet, local>>
    /\ LockFrame

\* return ws.stopStartErr
getErrorRead(t) ==
    /\ pc[t] = "getError.read"
    /\ local' = [local EXCEPT ![t] = getError]
    /\ pc' = [pc EXCEPT ![t] = "getError.Unlock"]
    /\ UNCHANGED <<errSync, changes, stopStartErr, exitStatus, runErr, runRet, cb, events,
                   nRuns, request, prevRunRet>>
    /\ LockFrame

\* The deferred ws.errSync.Unlock(), and the return to the caller.
errSyncUnlock(t) ==
    /\ pc[t] \in {"setError.Unlock", "getError.Unlock"}
    /\ errSync' = "free"
    /\ pc' = [pc EXCEPT ![t] = IF t = "execute" THEN "returned"
                               ELSE IF pc[t] = "setError.Unlock" THEN "svc.Run"
                               ELSE "return"]
    /\ UNCHANGED <<changes, stopStartErr, exitStatus, runErr, runRet, cb, events, nRuns,
                   request, prevRunRet, local>>
    /\ LockFrame

\* svc.Run(ws.Name, ws): Execute starts on its goroutine, or the dispatcher
\* cannot be reached and svc.Run returns an error at once.
svcRunCalled(dispatchOk) ==
    /\ pc.run = "svc.Run"
    /\ IF dispatchOk
       THEN /\ pc' = [run |-> "svc.Run blocked", execute |-> "Execute"]
            /\ UNCHANGED runErr
       ELSE /\ pc' = [pc EXCEPT !.run = "getError.Lock"]
            /\ runErr' = svcRunError
    /\ UNCHANGED <<errSync, changes, stopStartErr, exitStatus, runRet, cb, events, nRuns,
                   request, prevRunRet, local>>
    /\ LockFrame

\* Execute up to its control loop, or to its call of setError.
LockedExecuteStart(startOk) ==
    /\ pc.execute = "Execute"
    /\ cb' = Append(cb, Called("Start", IF startOk THEN nil ELSE onStartError))
    /\ IF ~startOk
       THEN /\ changes' = Append(changes, Status("StartPending", {}))
            /\ local' = [local EXCEPT !.execute = onStartError]
            /\ exitStatus' = [ssec |-> TRUE, errno |-> StartFailedErrno]
            /\ pc' = [pc EXCEPT !.execute = "setError.Lock"]
       ELSE /\ changes' = changes \o <<Status("StartPending", {}),
                                       Status("Running", cmdsAccepted)>>
            /\ pc' = [pc EXCEPT !.execute = "loop"]
            /\ UNCHANGED <<local, exitStatus>>
    /\ UNCHANGED <<errSync, stopStartErr, runErr, runRet, events, nRuns, request, prevRunRet>>
    /\ LockFrame

\* One turn of the control loop, up to the return or to the call of setError.
LockedExecuteRequest(c, stopOk) ==
    /\ pc.execute = "loop"
    /\ c.Cmd \in {"Stop", "Shutdown"} \/ (Len(events) < MaxEvents /\ stopOk)
    /\ events' = Append(events, c.Cmd)
    /\ request' = c
    /\ IF c.Cmd = "Interrogate"
       THEN /\ changes' = Append(changes, c.CurrentStatus)
            /\ UNCHANGED <<pc, cb, local, exitStatus>>
       ELSE IF c.Cmd \in {"Stop", "Shutdown"}
       THEN /\ changes' = Append(changes, Status("StopPending", {}))
            /\ IF stopPresent
               THEN /\ cb' = Append(cb, Called("Stop", IF stopOk THEN nil ELSE onStopError))
                    /\ IF ~stopOk
                       THEN /\ local' = [local EXCEPT !.execute = onStopError]
                            /\ exitStatus' = [ssec |-> TRUE, errno |-> StopFailedErrno]
                            /\ pc' = [pc EXCEPT !.execute = "setError.Lock"]
                       ELSE /\ exitStatus' = [ssec |-> FALSE, errno |-> 0]
                            /\ pc' = [pc EXCEPT !.execute = "returned"]
                            /\ UNCHANGED local
               ELSE /\ exitStatus' = [ssec |-> FALSE, errno |-> 0]
                    /\ pc' = [pc EXCEPT !.execute = "returned"]
                    /\ UNCHANGED <<cb, local>>
       ELSE UNCHANGED <<changes, pc, cb, local, exitStatus>>
    /\ UNCHANGED <<errSync, stopStartErr, runErr, runRet, nRuns, prevRunRet>>
    /\ LockFrame

\* svc.Run returns err to Run once Execute has returned.
svcRunReturned(err) ==
    /\ pc.run = "svc.Run blocked"
    /\ pc.execute = "returned"
    /\ runErr' = err
    /\ pc' = [run |-> "getError.Lock", execute |-> "off"]
    /\ UNCHANGED <<errSync, changes, stopStartErr, exitStatus, runRet, cb, events, nRuns,
                   request, prevRunRet, local>>
    /\ LockFrame

\* Run returns the recorded error if there is one, else svc.Run's.
RunReturned ==
    /\ pc.run = "return"
    /\ runRet' = runResult(local.run, runErr)
    /\ pc' = [pc EXCEPT !.run = "done"]
    /\ UNCHANGED <<errSync, changes, stopStartErr, exitStatus, runErr, cb, events, nRuns,
                   request, prevRunRet, local>>
    /\ LockFrame

LockInit ==
    /\ backend = "windows"
    /\ svc \in Services
    /\ InitInstalled
    /\ last = [op |-> "New", arg |-> svc, b |-> FALSE, err |-> nil, calls |-> <<>>,
               pre |-> Persisted]
    /\ prev = NoOp
    /\ stopPresent \in BOOLEAN
    /\ InitRun

LockNext ==
    \/ RunCalled
    \/ \E t \in Goroutines : errSyncLock(t)
    \/ \E t \in Goroutines : setErrorAssign(t)
    \/ \E t \in Goroutines : getErrorRead(t)
    \/ \E t \in Goroutines : errSyncUnlock(t)
    \/ \E dispatchOk \in BOOLEAN : svcRunCalled(dispatchOk)
    \/ \E startOk \in BOOLEAN : LockedExecuteStart(startOk)
    \/ \E c \in ChangeRequests, stopOk \in BOOLEAN : LockedExecuteRequest(c, stopOk)
    \/ \E err \in {nil, svcRunError} : svcRunReturned(err)
    \/ RunReturned

LockSpec == LockInit /\ [][LockNext]_vars

(***************************************************************************)
(* Properties                                                              *)
(***************************************************************************)
\* The installed descriptor of a persisted state: the file's bytes on
\* darwin, the manager's entry on windows; NoFile / NoEntry when absent.
Descriptor(q) ==
    IF backend = "darwin"
    THEN (IF q.file = NoFile THEN NoFile ELSE q.file.content)
    ELSE q.entry

Registered(q) == IF backend = "darwin" THEN q.file # NoFile ELSE q.entry # NoEntry

\* The descriptor rendered from the current service object.
Rendered ==
    IF backend = "darwin"
    THEN launchdConfig(svc)
    ELSE [binPath |-> binPath(ExecutablePath, svc.Arguments), config |-> buildConfig(svc)]

CallsOf(calls, names) == {i \in 1..Len(calls) : calls[i].call \in names}

Issued(calls, names) == \E i \in CallsOf(calls, names) : calls[i].ok

StartRequests == {"launchctl start", "s.Start"}
StopRequests == {"launchctl stop", "s.Control(Stop)"}

\* C1: after an InstallOrUpdate that returned no error, the next
\* InstallOrUpdateRequired on the same service object, with nothing in
\* between, returns false.
C1_RequiredFalseAfterInstall ==
    (last.op = "InstallOrUpdateRequired" /\ prev.op = "InstallOrUpdate") => last.b = FALSE

\* C2: on an InstallOrUpdate that returned no error the boolean is true
\* exactly when the installed descriptor was created or replaced by a
\* differing one, and false exactly when it was left as it was.
C2_BooleanTellsChange ==
    (last.op = "InstallOrUpdate" /\ last.err = nil) =>
        (last.b <=> Descriptor(Persisted) # Descriptor(last.pre))

\* C3: an InstallOrUpdate that returned an error left the installed
\* descriptor exactly as it was before the call.
C3_ErrorLeavesDescriptor ==
    (last.op = "InstallOrUpdate" /\ last.err # nil) =>
        Descriptor(Persisted) = Descriptor(last.pre)

\* C4: InstallOrUpdateRequired changes nothing that is persisted, and two
\* calls in a row on the same service object that return no error return
\* the same boolean.
C4_RequiredReadOnly ==
    last.op = "InstallOrUpdateRequired" =>
        /\ Persisted = last.pre
        /\ (prev.op = "InstallOrUpdateRequired" /\ last.err = nil) => last.b = prev.b

C4_Witness ==
    /\ last.op = "InstallOrUpdateRequired"
    /\ prev.op = "InstallOrUpdateRequired"
    /\ last.err = nil
    /\ last.b
    /\ Registered(Persisted)

\* C5: a Start that returned no error has issued a start request to the
\* service manager, and a Restart that returned no error has issued a stop
\* request and then a start request.
C5_StartIssuesRequest ==
    /\ (last.op = "Start" /\ last.err = nil) => Issued(last.calls, StartRequests)
    /\ (last.op = "Restart" /\ last.err = nil) =>
          \E i \in CallsOf(last.calls, StopRequests), j \in CallsOf(last.calls, StartRequests) :
              i < j /\ last.calls[i].ok /\ last.calls[j].ok

\* C6: when onStart returned an error in this Run, no Running status was
\* reported, no control event or signal was taken, the bridge has ended with
\* a non-zero status and the error recorded (windows), and Run, once it has
\* returned, returned that error.
OnStartFailed == cb # <<>> /\ cb[1].name = "Start" /\ cb[1].err # nil

C6_OnStartFailure ==
    OnStartFailed =>
        /\ \A i \in 1..Len(changes) : changes[i].State # "Running"
        /\ events = <<>>
        /\ runPc \in {"exited", "done"}
        /\ backend = "windows" =>
              (exitStatus # NoStatus /\ exitStatus.errno # 0 /\ stopStartErr = cb[1].err)
        /\ runPc = "done" => runRet = cb[1].err

C6_Witness == OnStartFailed /\ runPc = "done" /\ backend = "windows" /\ runErr = nil

\* C7: when onStart succeeded and onStop returned an error after a stop or
\* shutdown event, the control loop has ended, Run, once it has returned,
\* returned the onStop error, and the status given to the OS is neither zero
\* nor the status of an onStart failure.
OnStopFailed == \E i \in 1..Len(cb) : cb[i].name = "Stop" /\ cb[i].err # nil

C7_OnStopFailure ==
    OnStopFailed =>
        /\ cb[1].err = nil
        /\ runPc \in {"exited", "done"}
        /\ runPc = "done" => (runRet = onStopError /\ runRet # nil)
        /\ backend = "windows" =>
              (exitStatus # NoStatus /\ exitStatus.errno \notin {0, StartFailedErrno})

C7_Witness == OnStopFailed /\ runPc = "done" /\ backend = "windows" /\ runErr = nil

\* C8: a Run that has returned returned the callback error of this Run when
\* there was one, also when the control loop returned an error; otherwise
\* the control loop's error; and nil only when onStart succeeded, onStop was
\* absent or succeeded, the loop returned no error and a stop event came.
FailedCallbacks == {i \in 1..Len(cb) : cb[i].err # nil}

StopEvents == {"Stop", "Shutdown", "Interrupt", "Kill"}

C8_RunReturnsMostSevere ==
    runPc = "done" =>
        /\ \A i \in FailedCallbacks : runRet = cb[i].err
        /\ FailedCallbacks = {} => runRet = runErr
        /\ runRet = nil =>
              /\ cb # <<>> /\ cb[1].name = "Start" /\ cb[1].err = nil
              /\ stopPresent => (Len(cb) = 2 /\ cb[2].name = "Stop" /\ cb[2].err = nil)
              /\ runErr = nil
              /\ \E i \in 1..Len(events) : events[i] \in StopEvents

C8_Witness ==
    /\ runPc = "done"
    /\ FailedCallbacks # {}
    /\ runErr # nil
    /\ runRet = cb[Len(cb)].err

\* C9: an Uninstall of a name that is not registered, with the service
\* manager reachable, returns a not-installed error, which is none of the
\* errors of a failed connection, deletion or unload, and changes nothing
\* that is persisted.
NotInstalledErrors == {"service is not installed", "remove: no such file or directory"}

C9_UninstallNotInstalled ==
    (/\ last.op = "Uninstall"
     /\ ~Registered(last.pre)
     /\ ~(\E i \in CallsOf(last.calls, {"mgr.Connect"}) : ~last.calls[i].ok)) =>
        /\ last.err \in NotInstalledErrors
        /\ Persisted = last.pre

\* C10: a Restart calls Stop once and first; when Stop returned an error it
\* returns that error and calls no Start; when Stop returned nil it calls
\* Start once, after Stop, and returns what Start returned.
C10_RestartStopThenStart ==
    last.op = "Restart" =>
        LET cs == last.calls
            stops == CallsOf(cs, {"Stop"})
            starts == CallsOf(cs, {"Start"})
        IN /\ stops = {1}
           /\ cs[1].err # nil =>
                 /\ starts = {}
                 /\ CallsOf(cs, StartRequests) = {}
                 /\ last.err = cs[1].err
           /\ cs[1].err = nil =>
                 /\ Cardinality(starts) = 1
                 /\ \A j \in starts : j > 1 /\ last.err = cs[j].err
                 /\ Cardinality(CallsOf(cs, StartRequests)) <= 1

C10_Witness ==
    /\ last.op = "Restart"
    /\ last.calls[1].err = nil
    /\ \E j \in CallsOf(last.calls, {"Start"}) : last.calls[j].err # nil
    /\ last.err # nil

\* C11 as stated: in every Run onStart is called exactly once, Running is
\* reported only after onStart returned without error, and onStop is called
\* at most once.
StartCalls == {i \in 1..Len(cb) : cb[i].name = "Start"}
StopCalls == {i \in 1..Len(cb) : cb[i].name = "Stop"}
RunningReported == \E i \in 1..Len(changes) : changes[i].State = "Running"
PastStart == runPc \in {"running", "waiting", "exited", "done"}

\* The Run reached the place where onStart is called: on darwin every Run
\* does, on windows only a Run whose svc.Run invoked Execute.
BridgeEntered == PastStart /\ (backend = "windows" /\ runPc = "done" => changes # <<>>)

C11_EveryRunCallsOnStart ==
    /\ Cardinality(StartCalls) <= 1
    /\ Cardinality(StopCalls) <= 1
    /\ PastStart => StartCalls = {1}
    /\ RunningReported => (cb # <<>> /\ cb[1] = Called("Start", nil))

\* C11: in every Run that enters the bridge onStart is called exactly once,
\* as the first callback; Running is reported only after onStart returned
\* without error; onStop is called at most once, after onStart; a Run whose
\* svc.Run fails before Execute is invoked calls no callback and returns
\* svc.Run's error.
C11_CallbacksOnce ==
    /\ Cardinality(StartCalls) <= 1
    /\ Cardinality(StopCalls) <= 1
    /\ BridgeEntered => StartCalls = {1}
    /\ (PastStart /\ ~BridgeEntered) => (cb = <<>> /\ runRet = svcRunError)
    /\ RunningReported => (cb # <<>> /\ cb[1] = Called("Start", nil))

C11_Witness ==
    /\ backend = "windows"
    /\ runPc = "done"
    /\ events = <<"Interrogate", "Stop">>
    /\ cb = <<Called("Start", nil), Called("Stop", nil)>>
    /\ RunningReported

\* C12: after an InstallOrUpdate that returned no error the installed
\* descriptor (program path, argument list, configuration fields) is the one
\* rendered from the service object's Config, whatever was installed before.
C12_InstalledIsRendered ==
    (last.op = "InstallOrUpdate" /\ last.err = nil) => Descriptor(Persisted) = Rendered

\* C13: a turn of the control loop on a request that is neither Stop nor
\* Shutdown leaves the loop running, calls no callback and changes neither
\* the Runtime Error State nor the exit status; on Interrogate it sends the
\* request's CurrentStatus, once, and on any other command it sends nothing.
C13_NonStopRequests ==
    [][(/\ runPc = "running"
        /\ events' # events
        /\ request'.Cmd \notin {"Stop", "Shutdown"}) =>
           /\ runPc' = "running"
           /\ UNCHANGED <<cb, stopStartErr, exitStatus, runErr, runRet>>
           /\ IF request'.Cmd = "Interrogate"
              THEN changes' = Append(changes, request'.CurrentStatus)
              ELSE changes' = changes]_vars

C13_Witness ==
    /\ runPc = "running"
    /\ events = <<"Pause", "Interrogate">>
    /\ request.CurrentStatus = Status("Paused", {})
    /\ changes = <<Status("StartPending", {}), Status("Running", cmdsAccepted),
                   Status("Paused", {})>>

\* C14: New with a Config whose Name is empty returns errNameFieldRequired
\* and no service, having made no call of the platform or the OS and having
\* left everything persisted as it was.
C14_EmptyNameRejected ==
    (last.op = "New" /\ Len(last.arg.Name) = 0) =>
        /\ last.err = errNameFieldRequired
        /\ svc = NoService
        /\ last.calls = <<>>
        /\ Persisted = last.pre

C14_Witness ==
    /\ last.op = "New"
    /\ Len(last.arg.Name) = 0
    /\ last.arg.Program = <<>>
    /\ last.err # nil

\* C15: an InstallOrUpdate that finds the installed descriptor equal to the
\* rendered one and returns no error changes nothing that is persisted and
\* makes no move, ownership change, load, create, update or start call.
ApplyCalls ==
    {"os.Rename", "os.Chown", "launchctl load", "m.CreateService", "s.UpdateConfig",
     "s.Start"}

C15_EqualIsNoOp ==
    (/\ last.op = "InstallOrUpdate"
     /\ last.err = nil
     /\ Registered(last.pre)
     /\ Descriptor(last.pre) = Rendered) =>
        /\ Persisted = last.pre
        /\ CallsOf(last.calls, ApplyCalls) = {}

\* C16: in the darwin InstallOrUpdate the template is executed and the
\* temporary file closed before the move, the owner is changed only after a
\* move that succeeded, and launchd is asked to load only after an ownership
\* change that succeeded, each at most once; at the load the installed file
\* holds the rendered bytes and belongs to root.
OkBefore(calls, name, k) == \E i \in CallsOf(calls, {name}) : i < k /\ calls[i].ok

C16_MoveOwnLoad ==
    (last.op = "InstallOrUpdate" /\ backend = "darwin") =>
        LET cs == last.calls IN
        /\ \A n \in {"os.Rename", "os.Chown", "launchctl load"} :
               Cardinality(CallsOf(cs, {n})) <= 1
        /\ \A i \in CallsOf(cs, {"os.Rename"}) :
               OkBefore(cs, "t.Execute", i) /\ OkBefore(cs, "tmpFile.Close", i)
        /\ \A j \in CallsOf(cs, {"os.Chown"}) : OkBefore(cs, "os.Rename", j)
        /\ \A k \in CallsOf(cs, {"launchctl load"}) :
               /\ OkBefore(cs, "os.Chown", k)
               /\ OkBefore(cs, "os.Rename", k)
               /\ serviceFile = [content |-> Rendered, owner |-> "root"]

C16_Witness ==
    /\ last.op = "InstallOrUpdate"
    /\ backend = "darwin"
    /\ Issued(last.calls, {"launchctl load"})
    /\ last.pre.file # NoFile
    /\ last.pre.file.content # Rendered

\* C17: when a Facade operation has returned, every connection to the
\* service manager it opened is disconnected and every service handle it
\* opened or created is closed.
OkCount(calls, names) == Cardinality({i \in CallsOf(calls, names) : calls[i].ok})

C17_HandlesReleased ==
    last.op \in {"InstallOrUpdateRequired", "InstallOrUpdate", "Uninstall", "Start", "Stop",
                 "Restart"} =>
        /\ OkCount(last.calls, {"mgr.Connect"}) = OkCount(last.calls, {"m.Disconnect"})
        /\ OkCount(last.calls, {"m.OpenService", "m.CreateService"})
              = OkCount(last.calls, {"s.Close"})

\* C18: when InstallOrUpdateRequired or InstallOrUpdate has returned, the
\* temporary file it created was removed or moved into place.
C18_TmpFileGone ==
    (/\ last.op \in {"InstallOrUpdateRequired", "InstallOrUpdate"}
     /\ Issued(last.calls, {"ioutil.TempFile"})) =>
        Issued(last.calls, {"os.Remove(tmp)", "os.Rename"})

\* C19: from the start of a Run the Runtime Error State holds nil or an
\* error a callback returned in this Run, and a Run whose callbacks all
\* succeeded and whose control loop reported no error returns nil, whatever
\* the Run before returned.
C19_ErrorResetPerRun ==
    /\ runPc # "idle" =>
          (stopStartErr = nil \/ \E i \in FailedCallbacks : cb[i].err = stopStartErr)
    /\ (runPc = "done" /\ FailedCallbacks = {} /\ runErr = nil) => runRet = nil

C19_Witness ==
    /\ backend = "windows"
    /\ runPc = "done"
    /\ nRuns > 1
    /\ prevRunRet \in {onStartError, onStopError}
    /\ cb = <<Called("Start", nil), Called("Stop", nil)>>
    /\ runRet = nil

\* C20: a goroutine assigns or reads the Runtime Error State only while it
\* holds errSync, the two goroutines are never both at an access, the mutex
\* is held only inside setError and getError (so it is free whenever a
\* goroutine is outside them), and the value Run reads after svc.Run
\* returned is the error the Execute goroutine wrote last in this Run, or
\* nil when it wrote none.
Accessing(t) == pc[t] \in {"setError.assign", "getError.read"}

InsideLocked(t) ==
    pc[t] \in {"setError.assign", "setError.Unlock", "getError.read", "getError.Unlock"}

LastWritten == IF FailedCallbacks = {} THEN nil ELSE cb[Len(cb)].err

C20_ErrorStateLocked ==
    /\ \A t \in Goroutines : Accessing(t) => errSync = t
    /\ ~(Accessing("run") /\ Accessing("execute"))
    /\ \A t \in Goroutines : errSync = t <=> InsideLocked(t)
    /\ pc.run \in {"getError.Unlock", "return", "done"} => local.run = LastWritten
    /\ pc.run = "done" => (errSync = "free" /\ runRet = runResult(LastWritten, runErr))

C20_Witness ==
    /\ pc.run = "done"
    /\ nRuns > 1
    /\ cb = <<Called("Start", nil), Called("Stop", onStopError)>>
    /\ local = [run |-> onStopError, execute |-> onStopError]
    /\ runRet = onStopError
    /\ errSync = "free"

====
